---- MODULE Spec2Model ----
(***************************************************************************)
(* Model of src/temp.py: the temp-mail bot.                                *)
(*   - TempMailBot._generate_email      (provision an address)             *)
(*   - TempMailBot._delete_expired_emails (hourly sweep)                   *)
(*   - EmailHandler.check_emails        (periodic relay of the mailbox)    *)
(*   - CloudflareManager.create_email_rule / delete_email_rule             *)
(* The Mongo collection `users` is a sequence of documents in natural      *)
(* order; the provider's rule list is a sequence of rules.  Time is        *)
(* counted in half days, so the 24 hour lifetime is TTL = 2 units.         *)
(* Text is a sequence of one-character strings.                            *)
(***************************************************************************)
EXTENDS Integers, Sequences, FiniteSets, TLC

\* ---------------------------------------------------------------- bounds
MaxTime == 2
MaxRuleId == 3
MaxMsgs == 2
MaxTextLen == 2
Slack == 2

\* ------------------------------------------------------ program constants
\* timedelta(days=1), in half days
TTL == 2

Owners == {1, 2}
NoOwner == 0
NoEmail == <<>>

\* random.choices(lowercase + digits, k=12) + "@" + DOMAIN, over a small alphabet
Emails == {<<"a", "@", "d">>, <<"b", "@", "d">>}

\* rules that exist at the provider before the bot starts: nothing, the
\* zone's catch-all rule (its matcher has no 'value' key), or a literal rule
\* whose matcher value merely contains a generated address
InitialRules ==
    { <<>>,
      <<[id |-> 1, shape |-> "all", value |-> <<>>]>>,
      <<[id |-> 1, shape |-> "literal", value |-> <<"x", "a", "@", "d">>]>> }

\* msg.to of an arriving message: a tuple of raw recipient headers
Header(display, addr) == [display |-> display, addr |-> addr]
ToChoices ==
    { <<>>,
      <<Header("", <<"A", "@", "d">>)>>,
      <<Header("Bob", <<"b", "@", "d">>)>> }

CreateOutcomes == {"ok", "throttled", "rejected", "transport"}
ListOutcomes == {"ok", "http_error", "transport", "malformed"}

VARIABLES now, users, rules, nextRuleId, mailbox, nextUid, sent,
          swPc, swQueue, swFresh, swRepeat,
          rlPc, rlQueue, rlCur, last,
          txPc, txText, txClean, txTwice, txContent, txOut

vars == <<now, users, rules, nextRuleId, mailbox, nextUid, sent,
          swPc, swQueue, swFresh, swRepeat,
          rlPc, rlQueue, rlCur, last,
          txPc, txText, txClean, txTwice, txContent, txOut>>

storeVars == <<users>>
sweepVars == <<swPc, swQueue, swFresh, swRepeat>>
relayVars == <<rlPc, rlQueue, rlCur>>
mailVars == <<mailbox, nextUid, sent>>
textVars == <<txPc, txText, txClean, txTwice, txContent, txOut>>

\* what the last step did: which operation, on whose behalf, on which
\* address / message, with which outcome, and whether it raised
Last(op, owner, email, outcome, uid, raised) ==
    [op |-> op, owner |-> owner, email |-> email, outcome |-> outcome,
     uid |-> uid, raised |-> raised]

\* a step no statement below refers to
Quiet == Last("none", NoOwner, NoEmail, "none", 0, FALSE)

\* ------------------------------------------------------------- the Store
Min(S) == CHOOSE x \in S : \A y \in S : x <= y

\* index of the first document with this user_id, 0 when there is none
DocIndex(u, user_id) ==
    LET hits == {i \in 1..Len(u) : u[i].user_id = user_id}
    IN IF hits = {} THEN 0 ELSE Min(hits)

\* the owner's record list (empty when the owner has no document)
EmailsOf(u, user_id) ==
    IF DocIndex(u, user_id) = 0 THEN <<>> ELSE u[DocIndex(u, user_id)].emails

HasAddress(emails, address) ==
    \E k \in 1..Len(emails) : emails[k].address = address

\* users.find_one({"emails.address": a}): first document holding the address
FindOneByAddress(u, address) ==
    LET hits == {i \in 1..Len(u) : HasAddress(u[i].emails, address)}
    IN IF hits = {} THEN NoOwner ELSE u[Min(hits)].user_id

\* variant: the update overwrites the list ($set) instead of appending to it
UpdatePushSet(u, user_id, rec) ==
    IF DocIndex(u, user_id) = 0
    THEN Append(u, [user_id |-> user_id, emails |-> <<rec>>])
    ELSE [u EXCEPT ![DocIndex(u, user_id)].emails = <<rec>>]

\* users.update_one({"user_id": id}, {"$push": {"emails": rec}}, upsert=True)
UpdatePush(u, user_id, rec) ==
    IF DocIndex(u, user_id) = 0
    THEN Append(u, [user_id |-> user_id, emails |-> <<rec>>])
    ELSE [u EXCEPT ![DocIndex(u, user_id)].emails = Append(@, rec)]

RECURSIVE Without(_, _)
Without(emails, address) ==
    IF emails = <<>> THEN <<>>
    ELSE IF Head(emails).address = address
         THEN Without(Tail(emails), address)
         ELSE <<Head(emails)>> \o Without(Tail(emails), address)

\* users.update_one({"user_id": id}, {"$pull": {"emails": {"address": a}}})
UpdatePull(u, user_id, address) ==
    IF DocIndex(u, user_id) = 0 THEN u
    ELSE [u EXCEPT ![DocIndex(u, user_id)].emails = Without(@, address)]

RECURSIVE ExpiredIn(_, _, _)
ExpiredIn(user_id, emails, t) ==
    IF emails = <<>> THEN <<>>
    ELSE (IF Head(emails).expiry <= t
          THEN <<[user_id |-> user_id, emails |-> Head(emails)]>>
          ELSE <<>>) \o ExpiredIn(user_id, Tail(emails), t)

\* users.aggregate([{$unwind: "$emails"}, {$match: {"emails.expiry": {$lte: t}}}])
RECURSIVE Aggregate(_, _)
Aggregate(u, t) ==
    IF u = <<>> THEN <<>>
    ELSE ExpiredIn(Head(u).user_id, Head(u).emails, t) \o Aggregate(Tail(u), t)

RECURSIVE RecordCount(_)
RecordCount(u) ==
    IF u = <<>> THEN 0 ELSE Len(Head(u).emails) + RecordCount(Tail(u))

\* ---------------------------------------------------- routing rule client
\* CloudflareManager.create_email_rule: the dictionary handed to the caller
CreateEmailRule(outcome) ==
    CASE outcome = "ok" -> [success |-> TRUE, errors |-> <<>>]
      [] outcome = "throttled" -> [success |-> FALSE, errors |-> <<"Rate limit exceeded">>]
      [] outcome = "rejected" -> [success |-> FALSE, errors |-> <<"provider message">>]
      [] outcome = "transport" -> [success |-> FALSE, errors |-> <<"transport message">>]
      [] OTHER -> [success |-> FALSE, errors |-> <<>>]

\* variant: the record is stored whatever the response says
SucceededAlways(response) == TRUE

\* response.get('success')
Succeeded(response) == response.success

\* the text of the failure reply of _generate_email
ErrorMsg(response) ==
    IF response.errors # <<>> THEN response.errors[1] ELSE "Internal error"

\* `email in value`: Python substring test on strings
IsSubstring(e, v) ==
    \E i \in 0..(Len(v) - Len(e)) : SubSeq(v, i + 1, i + Len(e)) = e

\* variant: the scan issues a delete for every listed rule
RECURSIVE ScanRulesAll(_, _)
ScanRulesAll(rs, email) ==
    IF rs = <<>> THEN [hits |-> {}, raised |-> FALSE]
    ELSE IF Head(rs).shape # "literal" THEN [hits |-> {}, raised |-> TRUE]
    ELSE LET rest == ScanRulesAll(Tail(rs), email)
         IN [hits |-> {Head(rs).id} \cup rest.hits, raised |-> rest.raised]

\* the scan of the listed rules: the ids a delete is issued for, in order,
\* and whether the scan raised (KeyError on a matcher without 'value')
RECURSIVE ScanRules(_, _)
ScanRules(rs, email) ==
    IF rs = <<>> THEN [hits |-> {}, raised |-> FALSE]
    ELSE IF Head(rs).shape # "literal" THEN [hits |-> {}, raised |-> TRUE]
    ELSE LET rest == ScanRules(Tail(rs), email)
         IN IF IsSubstring(email, Head(rs).value)
            THEN [hits |-> {Head(rs).id} \cup rest.hits, raised |-> rest.raised]
            ELSE rest

RECURSIVE RemoveRules(_, _)
RemoveRules(rs, ids) ==
    IF rs = <<>> THEN <<>>
    ELSE IF Head(rs).id \in ids THEN RemoveRules(Tail(rs), ids)
         ELSE <<Head(rs)>> \o RemoveRules(Tail(rs), ids)

\* ------------------------------------------------------------ mail relay
Lower(c) == IF c = "A" THEN "a" ELSE IF c = "B" THEN "b" ELSE c

\* parseaddr(header)[1].lower()
ParseAddrLower(h) == [i \in 1..Len(h.addr) |-> Lower(h.addr[i])]

Uids(mb) == {m.uid : m \in mb}
MsgOf(mb, uid) == CHOOSE m \in mb : m.uid = uid

RECURSIVE SortedSeq(_)
SortedSeq(S) == IF S = {} THEN <<>> ELSE <<Min(S)>> \o SortedSeq(S \ {Min(S)})

SeqSet(s) == {s[i] : i \in 1..Len(s)}

\* ------------------------------------------------------------------ text
\* A message text is a sequence of Unicode code points.
\* the character class of the regular expression of sanitize_content:
\* _ * [ ] ( ) ~ ` > # + - = | { } . !
EscapeClass ==
    {95, 42, 91, 93, 40, 41, 126, 96, 62, 35, 43, 45, 61, 124, 123, 125, 46, 33}

\* the backslash the replacement r'\\\1' puts in front of the match
Backslash == 92

\* variant: the class also matches the backslash
EscapeCharWide(c) == IF c \in EscapeClass \cup {Backslash} THEN <<Backslash, c>> ELSE <<c>>

\* variant: the exclamation mark is missing from the class
EscapeCharNarrow(c) == IF c \in EscapeClass \ {33} THEN <<Backslash, c>> ELSE <<c>>

\* what re.sub makes of one character
EscapeChar(c) == IF c \in EscapeClass THEN <<Backslash, c>> ELSE <<c>>

\* re.sub(r'([...])', r'\\\1', text): every character is replaced on its own,
\* so the result is the concatenation of the replacements (split in halves)
RECURSIVE ReSub(_)
ReSub(t) ==
    IF t = <<>> THEN <<>>
    ELSE IF Len(t) = 1 THEN EscapeChar(t[1])
    ELSE LET h == Len(t) \div 2
         IN ReSub(SubSeq(t, 1, h)) \o ReSub(SubSeq(t, h + 1, Len(t)))

IsAscii(c) == c < 128

\* variant: nothing is dropped
EncodeAsciiKeep(t) == t

\* text.encode('ascii', 'ignore').decode()
EncodeAsciiIgnore(t) == SelectSeq(t, IsAscii)

\* EmailHandler.sanitize_content
Sanitize(t) == EncodeAsciiIgnore(ReSub(t))

\* the code point of a character of an address
CodeOf(c) ==
    CASE c = "a" -> 97 [] c = "b" -> 98 [] c = "d" -> 100
      [] c = "x" -> 120 [] c = "z" -> 122 [] c = "@" -> 64

CodePoints(e) == [i \in 1..Len(e) |-> CodeOf(e[i])]

\* the literal pieces of the f-string of check_emails
NewEmailPrefix == <<128232, 32, 78, 101, 119, 32, 69, 109, 97, 105, 108, 58, 32>>
FromPrefix == <<10, 70, 114, 111, 109, 58, 32>>
SubjectPrefix == <<10, 83, 117, 98, 106, 101, 99, 116, 58, 32>>
BlankLine == <<10, 10>>

\* email_content before the length test
Compose(to_email, from, subject, clean_text) ==
    NewEmailPrefix \o CodePoints(to_email) \o FromPrefix \o from
        \o SubjectPrefix \o subject \o BlankLine \o clean_text

\* len(email_content) > 4000, email_content[:4000]
Limit == 4000

\* "\n... [truncated]"
Marker == <<10, 46, 46, 46, 32, 91, 116, 114, 117, 110, 99, 97, 116, 101, 100, 93>>

\* variant: the test is >= instead of >
TruncateAtLimit(content) ==
    IF Len(content) >= Limit THEN SubSeq(content, 1, Limit) \o Marker ELSE content

\* the truncation of check_emails
Truncate(content) ==
    IF Len(content) > Limit THEN SubSeq(content, 1, Limit) \o Marker ELSE content

\* the characters texts are drawn from: every character of the class, a
\* letter, the backslash, a non-ASCII letter and a control character (LF)
TextChars == EscapeClass \cup {97, Backslash, 233, 10}

Texts == UNION {[1..n -> TextChars] : n \in 0..MaxTextLen}

\* msg.from_ and msg.subject of the messages
MsgFrom == <<98, 64, 120>>
Subjects == {<<>>, <<104, 105>>}

\* bodies that bring the composite text to about Limit characters, and
\* bodies of escaped characters far beyond it
HeaderLen == Len(Compose(<<"a", "@", "d">>, MsgFrom, <<>>, <<>>))
LongLens == (Limit - HeaderLen - Slack)..(Limit - HeaderLen + Slack)
LongTexts == {[i \in 1..n |-> c] : n \in LongLens, c \in {97, 42}}

\* the message whose send_message is awaited: uid, matched user_id, to_email
Cur(uid, user_id, email) == [uid |-> uid, user_id |-> user_id, email |-> email]
NoCur == Cur(0, NoOwner, NoEmail)

\* ----------------------------------------------------------------- Init
InitCommon ==
    /\ users = <<>>
    /\ nextRuleId = 2
    /\ mailbox = {}
    /\ nextUid = 1
    /\ sent = {}
    /\ swPc = "idle" /\ swQueue = <<>>
    /\ swFresh = FALSE /\ swRepeat = FALSE
    /\ rlPc = "idle" /\ rlQueue = <<>> /\ rlCur = NoCur
    /\ last = Quiet

\* no text is being worked on
TextIdle ==
    /\ txPc = "idle"
    /\ txText = <<>> /\ txClean = <<>> /\ txTwice = <<>>
    /\ txContent = <<>> /\ txOut = <<>>

Init ==
    /\ InitCommon
    /\ TextIdle
    /\ now = 0
    /\ rules \in InitialRules

\* the event loop can start a handler only when no synchronous code runs:
\* the sweep never awaits, the relay awaits only in send_message
LoopFree == swPc = "idle" /\ rlPc \in {"idle", "sending"}

\* ------------------------------------------------------------ environment
\* the wall clock advances; the handlers read it only where they start (the
\* sweep) or in one synchronous stretch (provision), so the clock is not
\* advanced in the middle of synchronous handler code
Tick ==
    /\ LoopFree
    /\ now < MaxTime
    /\ now' = now + 1
    /\ swFresh' = FALSE
    /\ last' = Quiet
    /\ UNCHANGED <<users, rules, nextRuleId, mailbox, nextUid, sent>>
    /\ UNCHANGED <<swPc, swQueue, swRepeat, relayVars>>
    /\ UNCHANGED textVars

\* a forwarded mail lands in the shared inbox
Arrive ==
    /\ nextUid <= MaxMsgs
    /\ \E to \in ToChoices :
          mailbox' = mailbox \cup {[uid |-> nextUid, to |-> to]}
    /\ nextUid' = nextUid + 1
    /\ last' = Quiet
    /\ UNCHANGED <<now, users, rules, nextRuleId, sent>>
    /\ UNCHANGED <<sweepVars, relayVars>>
    /\ UNCHANGED textVars

\* ------------------------------------------------------------- provision
\* TempMailBot._generate_email for one /genemail command
GenerateEmail ==
    /\ LoopFree
    /\ nextRuleId <= MaxRuleId
    /\ \E user_id \in Owners, email \in Emails, configured \in BOOLEAN,
          outcome \in CreateOutcomes, advanced \in BOOLEAN :
          LET response == CreateEmailRule(outcome)
              stored == configured /\ Succeeded(response)
              t1 == now
              t2 == IF advanced THEN now + 1 ELSE now
              rec == [address |-> email, expiry |-> t1 + TTL, created_at |-> t2]
          IN /\ (~configured) => outcome = "ok"
             /\ advanced => (stored /\ now < MaxTime)
             /\ rules' = IF configured /\ outcome = "ok"
                         THEN Append(rules, [id |-> nextRuleId, shape |-> "literal",
                                             value |-> email])
                         ELSE rules
             /\ nextRuleId' = IF configured /\ outcome = "ok"
                              THEN nextRuleId + 1 ELSE nextRuleId
             /\ users' = IF stored THEN UpdatePush(users, user_id, rec) ELSE users
             /\ now' = t2
             /\ swFresh' = (swFresh /\ t2 = now)
             /\ last' = IF stored
                        THEN Last("provision", user_id, email, outcome, 0, FALSE)
                        ELSE IF configured
                        THEN Last("provision", NoOwner, email, outcome, 0, FALSE)
                        ELSE Last("provision", NoOwner, NoEmail, "unconfigured", 0, FALSE)
    /\ UNCHANGED <<mailbox, nextUid, sent>>
    /\ UNCHANGED <<swPc, swQueue, swRepeat, relayVars>>
    /\ UNCHANGED textVars

\* ----------------------------------------------------------------- sweep
\* _delete_expired_emails up to the start of its loop
SweepStart ==
    /\ LoopFree
    /\ swQueue' = Aggregate(users, now)
    /\ swRepeat' = swFresh
    /\ swFresh' = TRUE
    /\ swPc' = "running"
    /\ last' = Quiet
    /\ UNCHANGED <<now, users, rules, nextRuleId>>
    /\ UNCHANGED <<mailVars, relayVars>>
    /\ UNCHANGED textVars

\* what becomes of the pass after one loop body: an exception leaves the loop
SweepPcAfter(raised) == IF raised THEN "idle" ELSE "running"

\* one iteration of the loop over the expired documents
SweepStep ==
    /\ swPc = "running"
    /\ swQueue # <<>>
    /\ \E listOutcome \in ListOutcomes :
          LET doc == Head(swQueue)
              email == doc.emails.address
              scan == IF listOutcome = "ok" THEN ScanRules(rules, email)
                      ELSE [hits |-> {}, raised |-> FALSE]
              raised == listOutcome \in {"transport", "malformed"} \/ scan.raised
              outcome == IF listOutcome = "ok" /\ scan.raised THEN "bad_shape"
                         ELSE listOutcome
          IN /\ \E deleted \in SUBSET scan.hits :
                   rules' = RemoveRules(rules, deleted)
             /\ users' = IF raised THEN users
                         ELSE UpdatePull(users, doc.user_id, email)
             /\ swPc' = SweepPcAfter(raised)
             /\ swQueue' = IF raised THEN <<>> ELSE Tail(swQueue)
             /\ last' = Last("sweep_step", doc.user_id, email, outcome, 0, raised)
             /\ swRepeat' = IF raised THEN FALSE ELSE swRepeat
    /\ UNCHANGED <<now, nextRuleId, swFresh>>
    /\ UNCHANGED <<mailVars, relayVars>>
    /\ UNCHANGED textVars

\* the cursor is exhausted: the coroutine returns
SweepEnd ==
    /\ swPc = "running"
    /\ swQueue = <<>>
    /\ swPc' = "idle"
    /\ swRepeat' = FALSE
    /\ last' = Quiet
    /\ UNCHANGED <<now, users, rules, nextRuleId, swQueue, swFresh>>
    /\ UNCHANGED <<mailVars, relayVars>>
    /\ UNCHANGED textVars

\* ----------------------------------------------------------------- relay
\* check_emails: login and the search that mailbox.fetch() starts with
RelayStart ==
    /\ LoopFree
    /\ rlPc = "idle"
    /\ \E loginOk \in BOOLEAN :
          /\ rlPc' = IF loginOk THEN "loop" ELSE "idle"
          /\ rlQueue' = IF loginOk THEN SortedSeq(Uids(mailbox)) ELSE <<>>
          /\ last' = Last("relay_start", NoOwner, NoEmail,
                          IF loginOk THEN "ok" ELSE "imap_error", 0, FALSE)
    /\ UNCHANGED <<now, users, rules, nextRuleId, rlCur>>
    /\ UNCHANGED <<mailVars, sweepVars>>
    /\ UNCHANGED textVars

\* variant: the branch is taken for every message
MatchedAlways(user) == TRUE

\* `if user:`
Matched(user) == user # NoOwner

\* variant: no inner try, every error reaches the outer except
RelayPcAfterAbort(outcome) ==
    IF outcome \in {"imap_error", "no_recipient", "lookup_error",
                    "send_error", "delete_error"}
    THEN "idle" ELSE "loop"

\* where the pass continues after one message: the inner except swallows
\* every per-message error, a failing fetch reaches the outer except
RelayPcAfter(outcome) == IF outcome = "imap_error" THEN "idle" ELSE "loop"

\* the loop body up to the await of send_message
RelayStep ==
    /\ rlPc = "loop"
    /\ rlQueue # <<>>
    /\ \E fetchOk \in BOOLEAN, lookupOk \in BOOLEAN :
          LET uid == Head(rlQueue)
              msg == MsgOf(mailbox, uid)
              to_email == IF msg.to = <<>> THEN NoEmail ELSE ParseAddrLower(msg.to[1])
              user == FindOneByAddress(users, to_email)
              outcome == IF ~fetchOk THEN "imap_error"
                         ELSE IF msg.to = <<>> THEN "no_recipient"
                         ELSE IF ~lookupOk THEN "lookup_error"
                         ELSE IF user = NoOwner THEN "unmatched"
                         ELSE "matched"
              sending == outcome \in {"unmatched", "matched"} /\ Matched(user)
          IN /\ (~fetchOk) => lookupOk
             /\ rlPc' = IF sending THEN "sending" ELSE RelayPcAfter(outcome)
             /\ rlCur' = IF sending THEN Cur(uid, user, to_email) ELSE NoCur
             /\ rlQueue' = IF sending THEN rlQueue
                           ELSE IF RelayPcAfter(outcome) = "idle" THEN <<>>
                           ELSE Tail(rlQueue)
             /\ last' = Last("relay_msg", user, to_email, outcome, uid, FALSE)
    /\ UNCHANGED <<now, users, rules, nextRuleId>>
    /\ UNCHANGED <<mailVars, sweepVars>>
    /\ UNCHANGED textVars

\* variant: the delete sits in a finally clause
DeleteIssuedAlways(sendOk) == TRUE

\* mailbox.delete(msg.uid) is reached only when send_message returned
DeleteIssued(sendOk) == sendOk

\* send_message completes (or raises), then the delete, then the next message
RelaySend ==
    /\ rlPc = "sending"
    /\ swPc = "idle"
    /\ \E sendOk \in BOOLEAN, delOk \in BOOLEAN :
          LET outcome == IF ~sendOk THEN "send_error"
                         ELSE IF ~delOk THEN "delete_error"
                         ELSE "delivered"
          IN /\ sent' = IF sendOk THEN sent \cup {<<rlCur.user_id, rlCur.uid>>} ELSE sent
             /\ mailbox' = IF DeleteIssued(sendOk) /\ delOk
                           THEN {m \in mailbox : m.uid # rlCur.uid}
                           ELSE mailbox
             /\ rlPc' = RelayPcAfter(outcome)
             /\ rlQueue' = Tail(rlQueue)
             /\ last' = Last("relay_send", rlCur.user_id, rlCur.email, outcome,
                             rlCur.uid, FALSE)
    /\ rlCur' = NoCur
    /\ UNCHANGED <<now, users, rules, nextRuleId, nextUid>>
    /\ UNCHANGED sweepVars
    /\ UNCHANGED textVars

\* ------------------------------------------------------------------ text
\* clean_text = EmailHandler.sanitize_content(msg.text or "")
SanitizeContent ==
    /\ txPc = "input"
    /\ txClean' = Sanitize(txText)
    /\ txPc' = "clean"
    /\ UNCHANGED <<txText, txTwice, txContent, txOut, last>>
    /\ UNCHANGED <<now, users, rules, nextRuleId>>
    /\ UNCHANGED <<mailVars, sweepVars, relayVars>>

\* sanitize_content applied to its own result
SanitizeAgain ==
    /\ txPc = "clean"
    /\ txTwice' = Sanitize(txClean)
    /\ txPc' = "twice"
    /\ UNCHANGED <<txText, txClean, txContent, txOut, last>>
    /\ UNCHANGED <<now, users, rules, nextRuleId>>
    /\ UNCHANGED <<mailVars, sweepVars, relayVars>>

\* email_content of check_emails: the f-string, then the truncation
BuildContent ==
    /\ txPc = "clean"
    /\ \E to_email \in Emails, subject \in Subjects :
          /\ txContent' = Compose(to_email, MsgFrom, subject, txClean)
          /\ txOut' = Truncate(Compose(to_email, MsgFrom, subject, txClean))
    /\ txPc' = "built"
    /\ UNCHANGED <<txText, txClean, txTwice, last>>
    /\ UNCHANGED <<now, users, rules, nextRuleId>>
    /\ UNCHANGED <<mailVars, sweepVars, relayVars>>


\* the enumeration is exhausted: the mailbox is closed
RelayEnd ==
    /\ rlPc = "loop"
    /\ rlQueue = <<>>
    /\ rlPc' = "idle"
    /\ last' = Quiet
    /\ UNCHANGED <<now, users, rules, nextRuleId, rlQueue, rlCur>>
    /\ UNCHANGED <<mailVars, sweepVars>>
    /\ UNCHANGED textVars

Next ==
    \/ Tick
    \/ Arrive
    \/ GenerateEmail
    \/ SweepStart
    \/ SweepStep
    \/ SweepEnd
    \/ RelayStart
    \/ RelayStep
    \/ RelaySend
    \/ RelayEnd
    \/ SanitizeContent
    \/ SanitizeAgain
    \/ BuildContent

Spec == Init /\ [][Next]_vars

\* provisioning and sweeping against the clock, the Store and the provider
NextStore ==
    \/ Tick
    \/ GenerateEmail
    \/ SweepStart
    \/ SweepStep
    \/ SweepEnd

SpecStore == Init /\ [][NextStore]_vars

\* provisioning and relaying against the Store and the mailbox
NextRelay ==
    \/ Arrive
    \/ GenerateEmail
    \/ RelayStart
    \/ RelayStep
    \/ RelaySend
    \/ RelayEnd

\* the relay reads neither the clock nor the provider's rules: the clock
\* stands still and no rule exists beforehand
InitRelay ==
    /\ InitCommon
    /\ TextIdle
    /\ now = MaxTime
    /\ rules = <<>>

SpecRelay == InitRelay /\ [][NextRelay]_vars

NextText ==
    \/ SanitizeContent
    \/ SanitizeAgain
    \/ BuildContent

\* a message body waits to be sanitized; nothing else is going on
InitTextWith(bodies) ==
    /\ InitCommon
    /\ now = 0
    /\ rules = <<>>
    /\ txPc = "input"
    /\ txText \in bodies
    /\ txClean = <<>> /\ txTwice = <<>> /\ txContent = <<>> /\ txOut = <<>>

InitText == InitTextWith(Texts)

\* sanitize_content and the composite text on short bodies
SpecText == InitText /\ [][NextText]_vars

InitTrunc == InitTextWith(Texts \cup LongTexts)

\* the same on bodies that reach the truncation limit
SpecTrunc == InitTrunc /\ [][NextText]_vars

\* the sweep is an hourly interval job: passes keep being started, and the
\* synchronous loop of a started pass keeps running until it returns or raises
SpecSweepLive ==
    /\ Init
    /\ [][NextStore]_vars
    /\ WF_vars(SweepStart)
    /\ WF_vars(SweepStep)
    /\ WF_vars(SweepEnd)

TypeOK ==
    /\ now \in 0..MaxTime
    /\ swPc \in {"idle", "running"}
    /\ rlPc \in {"idle", "loop", "sending"}
    /\ nextRuleId \in 2..(MaxRuleId + 1)
    /\ nextUid \in 1..(MaxMsgs + 1)
    /\ txPc \in {"idle", "input", "clean", "twice", "built"}

\* =================================================================== claims
ProvisionFailed(l) ==
    l.op = "provision" /\ l.outcome \in {"throttled", "rejected", "transport"}

\* C1 (as stated): a provision request whose createRule call does not report
\* success leaves the Store unchanged, and afterwards no owner is found for
\* the candidate address.
C1_FailureLeavesNoOwner ==
    [][ProvisionFailed(last') =>
          /\ users' = users
          /\ FindOneByAddress(users', last'.email) = NoOwner]_vars

\* C1 (amended): a provision request whose createRule call does not report
\* success leaves the Store unchanged; the owner lookup for the candidate
\* address answers afterwards what it answered before, none unless the
\* candidate collides with an address already stored.
C1_FailureLeavesStore ==
    [][ProvisionFailed(last') =>
          /\ users' = users
          /\ FindOneByAddress(users', last'.email) = FindOneByAddress(users, last'.email)
          /\ (FindOneByAddress(users, last'.email) = NoOwner
                => FindOneByAddress(users', last'.email) = NoOwner)]_vars

C1_Witness ==
    /\ last.op = "provision" /\ last.outcome = "throttled"
    /\ users # <<>>
    /\ FindOneByAddress(users, last.email) = NoOwner

\* C2: a provision request that gets a successful createRule response appends
\* exactly one record carrying the generated address to the requesting
\* owner's list (creating the owner's entry when absent) and leaves the list
\* of every other owner as it was.
C2_SuccessAppendsOne ==
    [][(last'.op = "provision" /\ last'.outcome = "ok") =>
          LET o == last'.owner
              before == EmailsOf(users, o)
              after == EmailsOf(users', o)
          IN /\ DocIndex(users', o) # 0
             /\ Len(after) = Len(before) + 1
             /\ SubSeq(after, 1, Len(before)) = before
             /\ after[Len(after)].address = last'.email
             /\ \A p \in Owners \ {o} :
                   /\ EmailsOf(users', p) = EmailsOf(users, p)
                   /\ (DocIndex(users', p) = 0) = (DocIndex(users, p) = 0)]_vars

C2_Witness ==
    /\ last.op = "provision" /\ last.outcome = "ok"
    /\ Len(EmailsOf(users, last.owner)) = 2
    /\ EmailsOf(users, last.owner)[2].address = last.email

\* C3: every record in the Store has expiry = created_at + 24h exactly.
C3_ExpiryExact ==
    \A i \in 1..Len(users) : \A k \in 1..Len(users[i].emails) :
        users[i].emails[k].expiry = users[i].emails[k].created_at + TTL

\* C4: whatever the list fetch and the deletes did, the loop body that handles
\* an expired (owner, record) pair removes the record from that owner's list.
C4_SweepAlwaysRemoves ==
    [][last'.op = "sweep_step" =>
          ~HasAddress(EmailsOf(users', last'.owner), last'.email)]_vars

\* C5: a failure while handling one expired address does not keep the pass
\* from going on to the expired addresses that remain.
C5_SweepGoesOn ==
    [][(last'.op = "sweep_step" /\ Len(swQueue) > 1) =>
          /\ swPc' = "running"
          /\ swQueue' = Tail(swQueue)]_vars

\* C6: a sweep pass that follows an earlier pass while the clock still shows
\* what that earlier pass read (so no record has become expired in between)
\* does not change the Store.
C6_SecondSweepNoMutation ==
    [][(last'.op = "sweep_step" /\ swRepeat) => users' = users]_vars

\* C7: a message whose recipient matches no owner is neither delivered nor
\* deleted by the pass: no send is started for it, it stays in the mailbox,
\* and a pass that starts enumerates every message in the mailbox.
C7_UnmatchedUntouched ==
    [][/\ (last'.op = "relay_msg" /\ last'.outcome = "unmatched") =>
             /\ mailbox' = mailbox
             /\ sent' = sent
             /\ rlPc' # "sending"
             /\ last'.uid \in Uids(mailbox')
       /\ (last'.op = "relay_start" /\ last'.outcome = "ok") =>
             SeqSet(rlQueue') = Uids(mailbox)]_vars

C7_Witness ==
    /\ last.op = "relay_msg" /\ last.outcome = "unmatched"
    /\ users # <<>>
    /\ last.uid \in Uids(mailbox)

\* C8 (as stated): once the delivery attempt for a matched message has
\* completed, the message is deleted from the mailbox, whether or not the
\* delivery succeeded (a failing delete apart).
C8_DeletedAfterAttempt ==
    [][(last'.op = "relay_send" /\ last'.outcome # "delete_error") =>
          last'.uid \notin Uids(mailbox')]_vars

\* C8 (amended): a send is started for every matched message; the message is
\* deleted from the mailbox once that send has returned without raising and
\* the delete went through; when the send raises, the mailbox is left as it
\* was.
C8_DeletedAfterSendReturned ==
    [][/\ (last'.op = "relay_msg" /\ last'.outcome = "matched") => rlPc' = "sending"
       /\ (last'.op = "relay_send" /\ last'.outcome = "delivered") =>
             /\ last'.uid \notin Uids(mailbox')
             /\ <<last'.owner, last'.uid>> \in sent'
       /\ (last'.op = "relay_send" /\ last'.outcome = "send_error") =>
             mailbox' = mailbox]_vars

C8_Witness ==
    /\ last.op = "relay_send" /\ last.outcome = "send_error"
    /\ last.uid \in Uids(mailbox)

\* C9: a failure while processing one message (no recipient header, owner
\* lookup error, send error, delete error) is contained to that message: the
\* pass goes on with the messages that follow in the enumeration.
C9_MessageFailureContained ==
    [][(/\ last'.op \in {"relay_msg", "relay_send"}
        /\ last'.outcome \in {"no_recipient", "lookup_error",
                              "send_error", "delete_error"}) =>
          /\ rlPc' = "loop"
          /\ rlQueue' = Tail(rlQueue)]_vars

C9_Witness ==
    /\ last.op = "relay_send" /\ last.outcome = "send_error"
    /\ rlPc = "loop"
    /\ rlQueue # <<>>

\* C10: a transport failure of a provider call (create, list, delete) comes
\* back as a failure result; it never raises out of the calling operation.
C10_TransportNeverRaises ==
    last.outcome = "transport" => ~last.raised

\* C14: a sweep deletes a remote rule only when the rule's matcher value
\* equals the expiring address.
C14_DeleteOnlyEqual ==
    [][last'.op = "sweep_step" =>
          \A i \in 1..Len(rules) :
              (rules[i].id \notin {rules'[j].id : j \in 1..Len(rules')})
                 => rules[i].value = last'.email]_vars

\* the owner holds an expired record for this address
ExpiredHeld(o, e) ==
    \E k \in 1..Len(EmailsOf(users, o)) :
        /\ EmailsOf(users, o)[k].address = e
        /\ EmailsOf(users, o)[k].expiry <= now

\* C16: with sweep passes that keep occurring, every record whose expiry has
\* been reached is eventually removed from the Store, whatever the provider
\* answers.
C16_ExpiredEventuallyRemoved ==
    \A o \in Owners : \A e \in Emails :
        ExpiredHeld(o, e) ~> ~ExpiredHeld(o, e)

\* the records of a list that are not expired at time t, in order
RECURSIVE LiveIn(_, _)
LiveIn(emails, t) ==
    IF emails = <<>> THEN <<>>
    ELSE (IF Head(emails).expiry > t THEN <<Head(emails)>> ELSE <<>>)
         \o LiveIn(Tail(emails), t)

\* C18: the loop body of a sweep removes only expired records: every record
\* that is not expired is still in its owner's list, unchanged, afterwards.
C18_SweepKeepsLive ==
    [][last'.op = "sweep_step" =>
          \A o \in Owners :
              LiveIn(EmailsOf(users', o), now) = LiveIn(EmailsOf(users, o), now)]_vars

\* C20: a message leaves the mailbox only in the step in which its send to
\* the matched owner returned without error; a message whose send raised is
\* still in the mailbox and the pass goes on without it having been deleted.
C20_DeleteOnlyAfterSend ==
    [][/\ \A uid \in Uids(mailbox) \ Uids(mailbox') :
             /\ last'.op = "relay_send"
             /\ last'.outcome = "delivered"
             /\ last'.uid = uid
             /\ <<last'.owner, uid>> \in sent'
       /\ (last'.op = "relay_send" /\ last'.outcome = "send_error") =>
             /\ last'.uid \in Uids(mailbox')
             /\ sent' = sent]_vars

C20_Witness ==
    /\ last.op = "relay_send" /\ last.outcome = "delivered"
    /\ last.uid \notin Uids(mailbox)
    /\ <<last.owner, last.uid>> \in sent

\* a remote rule exists whose matcher value is this address
Backed(rs, address) ==
    \E i \in 1..Len(rs) : rs[i].shape = "literal" /\ rs[i].value = address

\* the records of the whole Store that are not expired at time t
LiveRecords(u, t) ==
    UNION {SeqSet(LiveIn(u[i].emails, t)) : i \in 1..Len(u)}

StructuralChars ==
    {95, 42, 91, 93, 40, 41, 126, 96, 62, 35, 43, 45, 61, 124, 123, 125, 46, 33}

IsStructural(c) == c \in StructuralChars

HasStructural(t) == \E i \in 1..Len(t) : IsStructural(t[i])

\* C11 (as stated): sanitize(sanitize(t)) = sanitize(t) for every text t.
C11_Idempotent ==
    txPc = "twice" => txTwice = txClean

\* C11 (amended): sanitize(sanitize(t)) = sanitize(t) exactly for the texts t
\* without a structural character; for every other text the second
\* application escapes the escape-less structural characters once more and
\* the result is longer.
C11_IdempotentWithoutStructural ==
    txPc = "twice" =>
        /\ (~HasStructural(txText)) => txTwice = txClean
        /\ HasStructural(txText) => Len(txTwice) > Len(txClean)

C11_Witness ==
    /\ txPc = "twice"
    /\ ~HasStructural(txText)
    /\ \E i \in 1..Len(txText) : txText[i] = Backslash
    /\ txTwice = txClean

\* the place in the sanitized text of the i-th character of a
StructuralUpTo(a, i) == Len(SelectSeq(SubSeq(a, 1, i), IsStructural))
PlaceOf(a, i) == i + StructuralUpTo(a, i)

\* C12: sanitize prefixes each occurrence of a structural character with
\* exactly one escape character, keeps every other ASCII character as it is
\* and adds nothing else; a text with no structural and no non-ASCII
\* character is returned unchanged.
C12_EscapesEachOnce ==
    txPc \in {"clean", "twice", "built"} =>
        LET a == SelectSeq(txText, IsAscii)
        IN /\ Len(txClean) = Len(a) + StructuralUpTo(a, Len(a))
           /\ \A i \in 1..Len(a) :
                 /\ txClean[PlaceOf(a, i)] = a[i]
                 /\ IsStructural(a[i]) => txClean[PlaceOf(a, i) - 1] = Backslash
           /\ (a = txText /\ ~HasStructural(txText)) => txClean = txText

C12_Witness ==
    /\ txPc = "clean"
    /\ Len(txText) = 2
    /\ txText[1] = 33 /\ txText[2] = 97
    /\ txClean = <<Backslash, 33, 97>>

IsPrintable(c) == c \in 32..126
IsControl(c) == c < 32 \/ c = 127

\* C15 (as stated): the output of sanitize contains no character outside the
\* printable ASCII range, also for inputs that hold control characters.
C15_PrintableOnly ==
    txPc \in {"clean", "twice", "built"} =>
        \A i \in 1..Len(txClean) : IsPrintable(txClean[i])

\* C15 (amended): the output of sanitize contains no character outside the
\* ASCII range; the ASCII control characters of the input are all kept, in
\* their order.
C15_AsciiOnly ==
    txPc \in {"clean", "twice", "built"} =>
        /\ \A i \in 1..Len(txClean) : IsAscii(txClean[i])
        /\ SelectSeq(txClean, IsControl) = SelectSeq(txText, IsControl)

C15_Witness ==
    /\ txPc = "clean"
    /\ \E i \in 1..Len(txText) : ~IsAscii(txText[i])
    /\ \E i \in 1..Len(txText) : IsControl(txText[i])
    /\ \E i \in 1..Len(txClean) : IsControl(txClean[i])
    /\ \A i \in 1..Len(txClean) : IsAscii(txClean[i])

\* C13: a composite text longer than 4000 characters is delivered as its
\* first 4000 characters followed by the truncation marker; a composite text
\* of 4000 characters or fewer is delivered unmodified.
C13_TruncatedAtLimit ==
    txPc = "built" =>
        IF Len(txContent) > 4000
        THEN /\ Len(txOut) = 4000 + Len(Marker)
             /\ SubSeq(txOut, 1, 4000) = SubSeq(txContent, 1, 4000)
             /\ SubSeq(txOut, 4001, Len(txOut)) = Marker
        ELSE txOut = txContent

C13_Witness ==
    /\ txPc = "built"
    /\ Len(txContent) = 4001
    /\ Len(txOut) = 4000 + Len(Marker)

====
